---- MODULE Spec2Model ----
(***************************************************************************)
(* Trace-to-logs / trace-to-metrics span link construction                 *)
(* (createSpanLinkFactory and its helpers) and the stub alert state        *)
(* history backend (SqlBackend).                                           *)
(*                                                                         *)
(* Strings are TLA+ strings; JavaScript `undefined` for an optional value  *)
(* is modelled by a boolean "has..." field next to the value.              *)
(***************************************************************************)
EXTENDS Integers, Sequences, FiniteSets, TLC

VARIABLES
  fnIn,       \* arguments of the helper function under call
  fnOut,      \* what the helper returned ([fn |-> "none"] before the call)
  sqlBackend, \* the SqlBackend struct
  sqlCalls,   \* the calls made on the SqlBackend so far, in order
  sqlRet,     \* what the last SqlBackend call returned
  props,      \* the arguments of createSpanLinkFactory and the data source registry
  factory,    \* what createSpanLinkFactory captured for the returned SpanLink function
  scopedVars, \* the variable context retained by the returned SpanLink function
  lastCall,   \* the last SpanLink invocation: its span and what it returned
  firstSeen   \* for every span, what its first SpanLink invocation returned, and
              \* whether it was invoked again after another span

vars == <<fnIn, fnOut, sqlBackend, sqlCalls, sqlRet, props, factory, scopedVars, lastCall, firstSeen>>

fnVars == <<fnIn, fnOut>>
sqlVars == <<sqlBackend, sqlCalls, sqlRet>>
linkVars == <<props, factory, scopedVars, lastCall, firstSeen>>

\* ---------------------------------------------------------------- bounds

\* Largest small millisecond count / shift magnitude that is enumerated.
MaxSmall == 2
\* Longest span tag list that is enumerated.
MaxSpanTags == 2
\* Longest tag mapping that is enumerated.
MaxMapping == 2
\* Most calls made on one SqlBackend.
MaxSqlCalls == 4
\* Longest list of references of a span that is enumerated.
MaxRefs == 3
\* Longest list of subsidiary back-references of a span that is enumerated.
MaxSubRefs == 1

\* ------------------------------------------------------ program constants

\* Microseconds per millisecond: the divisor of getTimeRangeFromSpan.
UsPerMs == 1000
\* Minimum width, in ms, of a Splunk time range.
SplunkMinWidthMs == 1000

\* ------------------------------------------------------------- JS helpers

\* Array.prototype.join
RECURSIVE Join(_, _)
Join(parts, sep) ==
  IF Len(parts) = 0 THEN ""
  ELSE IF Len(parts) = 1 THEN parts[1]
  ELSE parts[1] \o sep \o Join(Tail(parts), sep)

\* ------------------------------------------------- getTimeRangeFromSpan

\* WidenedEnd without the Splunk branch
WidenedEndWithoutSplunk(adjustedStartTime, adjustedEndTime, isSplunkDS) ==
  IF adjustedStartTime = adjustedEndTime THEN adjustedEndTime + 1 ELSE adjustedEndTime

\* The branch of getTimeRangeFromSpan that widens the range.
WidenedEnd(adjustedStartTime, adjustedEndTime, isSplunkDS) ==
  IF isSplunkDS /\ adjustedEndTime - adjustedStartTime < SplunkMinWidthMs
    THEN adjustedStartTime + SplunkMinWidthMs
  ELSE IF adjustedStartTime = adjustedEndTime
    THEN adjustedEndTime + 1
  ELSE adjustedEndTime

\* Math.floor(span.startTime / 1000 + timeShift.startMs), integer inputs
AdjustedStartTime(span, timeShift) ==
  (span.startTime \div UsPerMs) + timeShift.startMs

\* AdjustedEndTime that truncates the start and the duration separately
AdjustedEndTimeEachTruncated(span, timeShift) ==
  (span.startTime \div UsPerMs) + (span.duration \div UsPerMs) + timeShift.endMs

\* Math.floor((span.startTime + span.duration) / 1000 + timeShift.endMs)
AdjustedEndTime(span, timeShift) ==
  ((span.startTime + span.duration) \div UsPerMs) + timeShift.endMs

getTimeRangeFromSpan(span, timeShift, isSplunkDS) ==
  LET from == AdjustedStartTime(span, timeShift)
      to   == WidenedEnd(from, AdjustedEndTime(span, timeShift), isSplunkDS)
  IN  [from |-> from, to |-> to]

NoShift == [startMs |-> 0, endMs |-> 0]

\* ---------------------------------------------------------------- getTags

\* tags.find((keyValue) => keyValue.key === key): 0 when there is none
RECURSIVE FindKey(_, _, _)
FindKey(tags, key, i) ==
  IF i > Len(tags) THEN 0
  ELSE IF tags[i].key = key THEN i
  ELSE FindKey(tags, key, i + 1)

\* LabelOf that never uses the target name
LabelOfKeyOnly(keyValue) == keyValue.key

\* `${keyValue.value ? keyValue.value : keyValue.key}`; an absent value is ""
LabelOf(keyValue) == IF keyValue.value # "" THEN keyValue.value ELSE keyValue.key

\* The fragment getTags maps one tag to
TagFragment(keyValue, labelValueSign, tag) ==
  LabelOf(keyValue) \o labelValueSign \o "\"" \o tag.value \o "\""

\* [...span.process.tags, ...span.tags]
CombinedTags(span) == span.process.tags \o span.tags

\* .map(...).filter((v) => Boolean(v)) over the combined tags, from index i on
RECURSIVE MapFilterTags(_, _, _, _)
MapFilterTags(combined, tags, labelValueSign, i) ==
  IF i > Len(combined) THEN <<>>
  ELSE LET k == FindKey(tags, combined[i].key, 1)
       IN  (IF k # 0 THEN <<TagFragment(tags[k], labelValueSign, combined[i])>> ELSE <<>>)
             \o MapFilterTags(combined, tags, labelValueSign, i + 1)

getTags(span, tags, labelValueSign) ==
  MapFilterTags(CombinedTags(span), tags, labelValueSign, 1)

\* ----------------------------------------------------------- log builders

\* ['cluster', 'hostname', 'namespace', 'pod'].map((k) => ({ key: k }))
defaultKeys ==
  << [key |-> "cluster", value |-> ""], [key |-> "hostname", value |-> ""],
     [key |-> "namespace", value |-> ""], [key |-> "pod", value |-> ""] >>

\* options.tags || dflt: an array, even an empty one, is truthy
TagsOr(options, dflt) == IF options.hasTags THEN options.tags ELSE dflt

\* The tag mapping getQueryForLoki resolves against
LokiTagMapping(options) == TagsOr(options, defaultKeys)

\* The tag mapping getQueryForSplunk resolves against
SplunkTagMapping(options) == TagsOr(options, defaultKeys)

\* The tag mapping getQueryForElasticsearchOrOpensearch resolves against
ElasticTagMapping(options) == TagsOr(options, <<>>)

\* filterByTraceID && span.traceID
TraceFilterOn(span, options) == options.filterByTraceID /\ span.traceID # ""

\* filterBySpanID && span.spanID
SpanFilterOn(span, options) == options.filterBySpanID /\ span.spanID # ""

\* LokiExpr that appends a suffix whenever its flag is on, whatever the span's ID
LokiExprIgnoringEmptyIds(span, options) ==
  "{$__tags}"
    \o (IF options.filterByTraceID THEN " |=\"$__span.traceId\"" ELSE "")
    \o (IF options.filterBySpanID THEN " |=\"$__span.id\"" ELSE "")

\* The expression getQueryForLoki builds once the tags are known non-empty
LokiExpr(span, options) ==
  "{$__tags}"
    \o (IF TraceFilterOn(span, options) THEN " |=\"$__span.traceId\"" ELSE "")
    \o (IF SpanFilterOn(span, options) THEN " |=\"$__span.id\"" ELSE "")

getQueryForLoki(span, options) ==
  LET tags == Join(getTags(span, LokiTagMapping(options), "="), ", ")
  IN  IF tags = ""
        THEN [query |-> [expr |-> "", refId |-> ""], tags |-> tags]
        ELSE [query |-> [expr |-> LokiExpr(span, options), refId |-> ""], tags |-> tags]

\* ElasticQueryString that appends the ID clauses in the order it tests them
ElasticQueryStringTraceFirst(span, options, tags) ==
  (IF TraceFilterOn(span, options) THEN "\"$__span.traceId\" AND " ELSE "")
    \o (IF SpanFilterOn(span, options) THEN "\"$__span.id\" AND " ELSE "")
    \o (IF Len(tags) > 0 THEN "$__tags" ELSE "")

\* The query string getQueryForElasticsearchOrOpensearch builds from the tags
ElasticQueryString(span, options, tags) ==
  LET q0 == IF Len(tags) > 0 THEN "$__tags" ELSE ""
      q1 == IF TraceFilterOn(span, options) THEN "\"$__span.traceId\" AND " \o q0 ELSE q0
      q2 == IF SpanFilterOn(span, options) THEN "\"$__span.id\" AND " \o q1 ELSE q1
  IN  q2

getQueryForElasticsearchOrOpensearch(span, options) ==
  LET tags == Join(getTags(span, ElasticTagMapping(options), ":"), " AND ")
  IN  [query |-> [query |-> ElasticQueryString(span, options, tags), refId |-> "",
                  metrics |-> << [id |-> "1", type |-> "logs"] >>],
       tags |-> tags]

\* SplunkQueryString with the span-ID token before the trace-ID token
SplunkQueryStringSpanFirst(span, options, tags) ==
  (IF tags # "" THEN "$__tags" ELSE "")
    \o (IF SpanFilterOn(span, options) THEN " \"$__span.id\"" ELSE "")
    \o (IF TraceFilterOn(span, options) THEN " \"$__span.traceId\"" ELSE "")

\* The query string getQueryForSplunk builds from the tags
SplunkQueryString(span, options, tags) ==
  (IF tags # "" THEN "$__tags" ELSE "")
    \o (IF TraceFilterOn(span, options) THEN " \"$__span.traceId\"" ELSE "")
    \o (IF SpanFilterOn(span, options) THEN " \"$__span.id\"" ELSE "")

getQueryForSplunk(span, options) ==
  LET tags == Join(getTags(span, SplunkTagMapping(options), "="), " ")
  IN  [query |-> [query |-> SplunkQueryString(span, options, tags), refId |-> ""],
       tags |-> tags]

\* ------------------------------------------------------ buildMetricsQuery

\* A query template is a sequence of tokens: the marker, or text without it.
TagsMarker == "$__tags"

\* The template's text
TemplateText(tokens) == Join(tokens, "")

\* expr.indexOf('$__tags') !== -1
HasMarker(tokens) == \E i \in 1..Len(tokens) : tokens[i] = TagsMarker

\* expr.replace(/\$__tags/g, labelsQuery)
ReplaceMarker(tokens, labelsQuery) ==
  [i \in 1..Len(tokens) |-> IF tokens[i] = TagsMarker THEN labelsQuery ELSE tokens[i]]

\* spanTags.find((t) => t.key === key)?.value, "" when there is none
RECURSIVE FindTagValue(_, _, _)
FindTagValue(spanTags, key, i) ==
  IF i > Len(spanTags) THEN ""
  ELSE IF spanTags[i].key = key THEN spanTags[i].value
  ELSE FindTagValue(spanTags, key, i + 1)

\* MetricLabels that runs over the span's tags, as getTags does
MetricLabelsInTagOrder(tags, spanTags, i) == MapFilterTags(spanTags, tags, "=", i)

\* tags.reduce(...): one label per mapping entry whose tag value is truthy
RECURSIVE MetricLabels(_, _, _)
MetricLabels(tags, spanTags, i) ==
  IF i > Len(tags) THEN <<>>
  ELSE LET tagValue == FindTagValue(spanTags, tags[i].key, 1)
       IN  (IF tagValue # ""
              THEN <<LabelOf(tags[i]) \o "=\"" \o tagValue \o "\"">>
              ELSE <<>>)
             \o MetricLabels(tags, spanTags, i + 1)

\* The fallback query of buildMetricsQuery
DefaultMetricsQuery(span) ==
  "histogram_quantile(0.5, sum(rate(tempo_spanmetrics_latency_bucket{operation=\""
    \o span.operationName \o "\"}[5m])) by (le))"

\* buildMetricsQuery that falls back for an absent template only
buildMetricsQueryAbsentOnly(query, tags, span) ==
  IF Len(query.query) = 0
    THEN DefaultMetricsQuery(span)
  ELSE IF Len(tags) # 0 /\ HasMarker(query.query)
    THEN TemplateText(ReplaceMarker(query.query,
                        Join(MetricLabels(tags, CombinedTags(span), 1), ", ")))
  ELSE TemplateText(query.query)

\* buildMetricsQuery that leaves the markers when no label is resolved
buildMetricsQueryKeepingMarker(query, tags, span) ==
  IF TemplateText(query.query) = ""
    THEN DefaultMetricsQuery(span)
  ELSE IF MetricLabels(tags, CombinedTags(span), 1) # <<>> /\ HasMarker(query.query)
    THEN TemplateText(ReplaceMarker(query.query,
                        Join(MetricLabels(tags, CombinedTags(span), 1), ", ")))
  ELSE TemplateText(query.query)

\* query.query is the template's tokens (none when absent or empty);
\* tags is the mapping, <<>> when absent (the parameter's default)
buildMetricsQuery(query, tags, span) ==
  IF TemplateText(query.query) = ""
    THEN DefaultMetricsQuery(span)
  ELSE IF Len(tags) # 0 /\ HasMarker(query.query)
    THEN TemplateText(ReplaceMarker(query.query,
                        Join(MetricLabels(tags, CombinedTags(span), 1), ", ")))
  ELSE TemplateText(query.query)

\* ---------------------------------------------------------- scoped variables

\* { ...a, ...b }: the entries of b override those of a
Spread(a, b) == b @@ a

\* {}
EmptyVars == [k \in {} |-> TRUE]

scopedVarsFromTrace(trace) ==
  [k \in {"__trace"} |->
     [text |-> "Trace",
      value |-> [duration |-> [value |-> trace.duration],
                 name |-> [value |-> trace.traceName],
                 id |-> [value |-> trace.traceID]]]]

\* The value the loop of scopedVarsFromSpan leaves under key: the last tag's
RECURSIVE LastTagValue(_, _, _)
LastTagValue(tags, key, i) ==
  IF tags[i].key = key THEN tags[i].value ELSE LastTagValue(tags, key, i - 1)

\* for (const tag of span.tags) { tags[tag.key] = { text: tag.key, value: tag.value } }
SpanTagVars(span) ==
  [k \in {span.tags[i].key : i \in 1..Len(span.tags)} |->
     [text |-> k, value |-> LastTagValue(span.tags, k, Len(span.tags))]]

scopedVarsFromSpan(span) ==
  [k \in {"__span"} |->
     [text |-> "Span",
      value |-> [id |-> [value |-> span.spanID],
                 duration |-> [value |-> span.duration],
                 name |-> [value |-> span.operationName],
                 tags |-> [value |-> SpanTagVars(span)]]]]

\* SpanScope in which what is retained wins over the span's scope
SpanScopeKeepingRetained(retained, span) == Spread(scopedVarsFromSpan(span), retained)

\* scopedVars = { ...scopedVars, ...scopedVarsFromSpan(span) }
SpanScope(retained, span) == Spread(retained, scopedVarsFromSpan(span))

\* TagsScope in which a retained __tags wins over the new one
TagsScopeKeepingRetained(scope, queryData) ==
  Spread([k \in {"__tags"} |-> [text |-> "Tags", value |-> queryData.tags]], scope)

\* TagsScope that stores __tags only when tags were resolved
TagsScopeWhenTagged(scope, queryData) ==
  IF queryData.tags # ""
    THEN Spread(scope, [k \in {"__tags"} |-> [text |-> "Tags", value |-> queryData.tags]])
    ELSE scope

\* scopedVars = { ...scopedVars, __tags: { text: 'Tags', value: queryData.tags } }
TagsScope(scope, queryData) ==
  Spread(scope, [k \in {"__tags"} |-> [text |-> "Tags", value |-> queryData.tags]])

\* ------------------------------------------------------------ collaborators

\* getDatasourceSrv().getInstanceSettings(uid): the registered settings, if any
getInstanceSettings(registry, uid) ==
  IF \E ds \in registry : ds.uid = uid
    THEN [found |-> TRUE, settings |-> CHOOSE ds \in registry : ds.uid = uid]
    ELSE [found |-> FALSE, settings |-> [uid |-> "", name |-> "", type |-> ""]]

\* rangeUtil.intervalToMs on the intervals the configurations use
intervalToMs(str) ==
  CASE str = "1s" -> 1000
    [] str = "-1s" -> -1000
    [] str = "2ms" -> 2
    [] str = "-2ms" -> -2
    [] OTHER -> 0

\* mapInternalLinkToExplore: the link is determined by the data source, the
\* query, the variables it interpolates with and the range
mapInternalLinkToExplore(dataLink, scoped, range) ==
  [href |-> [datasourceUid |-> dataLink.internal.datasourceUid,
             query |-> dataLink.internal.query,
             scopedVars |-> scoped,
             range |-> range],
   onClick |-> "splitOpenFn"]

\* createFocusSpanLink(traceId, spanId), supplied by the caller
createFocusSpanLink(traceID, spanID) ==
  [href |-> [traceID |-> traceID, spanID |-> spanID], onClick |-> "focusSpan"]

\* getFieldLinksForExplore: throws when a link definition of the field cannot
\* be interpolated, and returns one link per definition it keeps
RECURSIVE FieldLinks(_, _, _, _, _)
FieldLinks(defs, i, rowIndex, range, scoped) ==
  IF i > Len(defs) THEN <<>>
  ELSE (IF defs[i].kind = "ok"
          THEN << [href |-> [title |-> defs[i].title, rowIndex |-> rowIndex,
                             range |-> range, scopedVars |-> scoped],
                   onClick |-> "splitOpenFn"] >>
          ELSE <<>>)
         \o FieldLinks(defs, i + 1, rowIndex, range, scoped)

getFieldLinksForExplore(field, rowIndex, range, scoped) ==
  IF \E i \in 1..Len(field.links) : field.links[i].kind = "throws"
    THEN [threw |-> TRUE, links |-> <<>>]
    ELSE [threw |-> FALSE, links |-> FieldLinks(field.links, 1, rowIndex, range, scoped)]

\* ---------------------------------------------------- createSpanLinkFactory

\* Boolean(f.config.links?.length)
FieldHasLinks(f) == f.hasLinks /\ Len(f.links) # 0

\* dataFrame.fields.some((f) => Boolean(f.config.links?.length))
SomeFieldHasLinks(dataFrame) ==
  \E i \in 1..Len(dataFrame.fields) : FieldHasLinks(dataFrame.fields[i])

\* UseLegacy without the test for a single field
UseLegacyManyFieldsUntested(p) ==
  \/ ~p.hasDataFrame
  \/ ~SomeFieldHasLinks(p.dataFrame)

\* The condition under which createSpanLinkFactory takes the legacy path
UseLegacy(p) ==
  \/ ~p.hasDataFrame
  \/ Len(p.dataFrame.fields) = 1
  \/ ~SomeFieldHasLinks(p.dataFrame)

\* What legacyCreateSpanLinkFactory resolves before it returns SpanLink
LegacyFactory(p) ==
  LET logs == IF p.hasLogsOptions /\ p.traceToLogsOptions.datasourceUid # ""
                THEN getInstanceSettings(p.registry, p.traceToLogsOptions.datasourceUid)
                ELSE getInstanceSettings({}, "")
      metrics == IF p.hasMetricsOptions /\ p.traceToMetricsOptions.datasourceUid # ""
                   THEN getInstanceSettings(p.registry, p.traceToMetricsOptions.datasourceUid)
                   ELSE getInstanceSettings({}, "")
  IN  [mode |-> "legacy",
       hasLogsDS |-> logs.found, logsDataSourceSettings |-> logs.settings,
       isSplunkDS |-> logs.found /\ logs.settings.type = "grafana-splunk-datasource",
       hasMetricsDS |-> metrics.found, metricsDataSourceSettings |-> metrics.settings]

\* The function createSpanLinkFactory returns, with what it captured
FactoryFor(p) ==
  IF UseLegacy(p) THEN LegacyFactory(p) ELSE [mode |-> "structured"]

CreateSpanLinkFactory ==
  /\ factory.mode = "none"
  /\ props.kind = "props"
  /\ scopedVars' = scopedVarsFromTrace(props.trace)
  /\ factory' = FactoryFor(props)
  /\ UNCHANGED <<props, lastCall, firstSeen, fnVars, sqlVars>>

\* ------------------------------------------------------ SpanLink, legacy

\* The switch over logsDataSourceSettings.type
LogsQueryData(type, span, options) ==
  CASE type = "loki" -> getQueryForLoki(span, options)
    [] type = "grafana-splunk-datasource" -> getQueryForSplunk(span, options)
    [] type \in {"elasticsearch", "grafana-opensearch-datasource"} ->
         getQueryForElasticsearchOrOpensearch(span, options)
    [] OTHER -> [query |-> [refId |-> ""], tags |-> ""]

\* shift ? rangeUtil.intervalToMs(shift) : 0, for both ends
TimeShiftOf(options) ==
  [startMs |-> IF options.spanStartTimeShift # ""
                 THEN intervalToMs(options.spanStartTimeShift) ELSE 0,
   endMs |-> IF options.spanEndTimeShift # ""
               THEN intervalToMs(options.spanEndTimeShift) ELSE 0]

\* LogLinkWanted that also holds when an ID filter is on
LogLinkWantedWhenFiltered(queryData, options) ==
  queryData.tags # "" \/ options.customQuery \/ options.filterByTraceID

\* if (queryData.tags || traceToLogsOptions.customQuery)
LogLinkWanted(queryData, options) ==
  queryData.tags # "" \/ options.customQuery

\* LogLinkQuery that carries the custom query only when tags were resolved
LogLinkQueryWhenTagged(options, queryData) ==
  IF options.customQuery
    THEN (IF queryData.tags # "" THEN options.query ELSE "")
    ELSE queryData.query

\* query: traceToLogsOptions.customQuery ? traceToLogsOptions.query : queryData.query
LogLinkQuery(options, queryData) ==
  IF options.customQuery THEN options.query ELSE queryData.query

\* The logs part of SpanLink: the log links, if any, and the scope it leaves
LegacyLogLinks(f, p, scope, span) ==
  IF ~(f.hasLogsDS /\ p.hasLogsOptions)
    THEN [has |-> FALSE, links |-> <<>>, scope |-> scope]
  ELSE
    LET options == p.traceToLogsOptions
        queryData == LogsQueryData(f.logsDataSourceSettings.type, span, options)
    IN  IF ~LogLinkWanted(queryData, options)
          THEN [has |-> FALSE, links |-> <<>>, scope |-> scope]
        ELSE
          LET dataLink ==
                [title |-> f.logsDataSourceSettings.name, url |-> "",
                 internal |->
                   [datasourceUid |-> f.logsDataSourceSettings.uid,
                    datasourceName |-> f.logsDataSourceSettings.name,
                    query |-> LogLinkQuery(options, queryData)]]
              tagged == TagsScope(scope, queryData)
              link == mapInternalLinkToExplore(
                        dataLink, tagged,
                        getTimeRangeFromSpan(span, TimeShiftOf(options), f.isSplunkDS))
          IN  [has |-> TRUE,
               links |-> << [href |-> link.href, onClick |-> link.onClick,
                             content |-> "gf-logs"] >>,
               scope |-> tagged]

\* buildMetricsQuery's tags argument: traceToMetricsOptions?.tags
MetricsTagsArg(options) == IF options.hasTags THEN options.tags ELSE <<>>

\* The link pushed for one metric query definition
MetricLink(f, options, query, span) ==
  LET expr == buildMetricsQuery(query, MetricsTagsArg(options), span)
      dataLink ==
        [title |-> f.metricsDataSourceSettings.name, url |-> "",
         internal |->
           [datasourceUid |-> f.metricsDataSourceSettings.uid,
            datasourceName |-> f.metricsDataSourceSettings.name,
            query |-> [expr |-> expr, refId |-> "A"]]]
      link == mapInternalLinkToExplore(
                dataLink, EmptyVars,
                getTimeRangeFromSpan(span, TimeShiftOf(options), FALSE))
  IN  [title |-> query.name, href |-> link.href, onClick |-> link.onClick,
       content |-> "chart-line"]

\* LegacyMetricLinks that makes links for spans with tags only
LegacyMetricLinksWhenTagged(f, p, span) ==
  IF /\ f.hasMetricsDS /\ p.hasMetricsOptions /\ p.traceToMetricsOptions.hasQueries
     /\ Len(span.tags) > 0
    THEN [has |-> TRUE,
          links |-> [i \in 1..Len(p.traceToMetricsOptions.queries) |->
                       MetricLink(f, p.traceToMetricsOptions,
                                  p.traceToMetricsOptions.queries[i], span)]]
    ELSE [has |-> FALSE, links |-> <<>>]

\* The metrics part of SpanLink
LegacyMetricLinks(f, p, span) ==
  IF f.hasMetricsDS /\ p.hasMetricsOptions /\ p.traceToMetricsOptions.hasQueries
    THEN [has |-> TRUE,
          links |-> [i \in 1..Len(p.traceToMetricsOptions.queries) |->
                       MetricLink(f, p.traceToMetricsOptions,
                                  p.traceToMetricsOptions.queries[i], span)]]
    ELSE [has |-> FALSE, links |-> <<>>]

\* The trace link pushed for one reference
TraceLink(reference) ==
  LET link == createFocusSpanLink(reference.traceID, reference.spanID)
  IN  [href |-> link.href,
       title |-> IF reference.hasSpan THEN reference.span.operationName
                 ELSE "View linked span",
       content |-> "link", onClick |-> link.onClick]

\* ReferenceLinks that skips nothing
ReferenceLinksUnfiltered(references, i) ==
  [k \in 1..Len(references) |-> TraceLink(references[k])]

\* The loop over span.references: CHILD_OF references are skipped
RECURSIVE ReferenceLinks(_, _)
ReferenceLinks(references, i) ==
  IF i > Len(references) THEN <<>>
  ELSE (IF references[i].refType = "CHILD_OF" THEN <<>> ELSE <<TraceLink(references[i])>>)
         \o ReferenceLinks(references, i + 1)

\* The loop over span.subsidiarilyReferencedBy
SubsidiaryLinks(references) ==
  [i \in 1..Len(references) |-> TraceLink(references[i])]

\* The trace links part of SpanLink
LegacyTraceLinks(p, span) ==
  (IF span.hasReferences /\ p.hasCreateFocusSpanLink
     THEN ReferenceLinks(span.references, 1) ELSE <<>>)
    \o (IF span.hasSubsidiarilyReferencedBy /\ p.hasCreateFocusSpanLink
          THEN SubsidiaryLinks(span.subsidiarilyReferencedBy) ELSE <<>>)

\* The legacy SpanLink function: what it returns and the scope it retains
LegacySpanLinkResult(f, p, retained, span) ==
  LET scope == SpanScope(retained, span)
      logs == LegacyLogLinks(f, p, scope, span)
      metrics == LegacyMetricLinks(f, p, span)
  IN  [links |-> [by |-> "legacy", defined |-> TRUE, raised |-> FALSE,
                  hasLogLinks |-> logs.has, logLinks |-> logs.links,
                  hasMetricLinks |-> metrics.has, metricLinks |-> metrics.links,
                  hasTraceLinks |-> TRUE, traceLinks |-> LegacyTraceLinks(p, span)],
       scope |-> logs.scope]

\* --------------------------------------------------- SpanLink, structured

\* dataFrame.fields.find((f) => Boolean(f.config.links?.length))
RECURSIVE FirstLinkedField(_, _)
FirstLinkedField(fields, i) ==
  IF FieldHasLinks(fields[i]) THEN fields[i] ELSE FirstLinkedField(fields, i + 1)

\* try { ... } catch (error) { return undefined }: an uncaught failure
CaughtNothing(got) == got.threw

\* try { ... } catch (error) { return undefined }: whether the failure of the
\* link resolution leaves SpanLink as an exception
Caught(got) == FALSE

\* What SpanLink returns without links
UndefinedLinks(by, raised) ==
  [by |-> by, defined |-> FALSE, raised |-> raised,
   hasLogLinks |-> FALSE, logLinks |-> <<>>,
   hasMetricLinks |-> FALSE, metricLinks |-> <<>>,
   hasTraceLinks |-> FALSE, traceLinks |-> <<>>]

\* The structured SpanLink function: what it returns and the scope it retains
StructuredSpanLinkResult(p, retained, span) ==
  LET scope == SpanScope(retained, span)
      field == FirstLinkedField(p.dataFrame.fields, 1)
      got == getFieldLinksForExplore(field, span.dataFrameRowIndex,
                                     getTimeRangeFromSpan(span, NoShift, FALSE), scope)
  IN  [links |-> IF got.threw \/ Len(got.links) = 0
                   THEN UndefinedLinks("structured", Caught(got))
                   ELSE [by |-> "structured", defined |-> TRUE, raised |-> FALSE,
                         hasLogLinks |-> TRUE,
                         logLinks |-> << [href |-> got.links[1].href,
                                          onClick |-> got.links[1].onClick,
                                          content |-> "gf-logs"] >>,
                         hasMetricLinks |-> FALSE, metricLinks |-> <<>>,
                         hasTraceLinks |-> FALSE, traceLinks |-> <<>>],
       scope |-> scope]

\* ------------------------------------------------------ SpanLink invocations

\* The bookkeeping of one invocation
Returned(span, result) ==
  /\ scopedVars' = result.scope
  /\ lastCall' = [kind |-> "call", span |-> span, links |-> result.links]
  /\ firstSeen' =
       IF firstSeen[span.spanID].kind = "none"
         THEN [firstSeen EXCEPT ![span.spanID] =
                 [kind |-> "links", links |-> result.links, repeated |-> FALSE]]
       ELSE IF lastCall.span.spanID # span.spanID
         THEN [firstSeen EXCEPT ![span.spanID].repeated = TRUE]
       ELSE firstSeen
  /\ UNCHANGED <<props, factory, fnVars, sqlVars>>

LegacySpanLink(span) ==
  /\ factory.mode = "legacy"
  /\ Returned(span, LegacySpanLinkResult(factory, props, scopedVars, span))

StructuredSpanLink(span) ==
  /\ factory.mode = "structured"
  /\ Returned(span, StructuredSpanLinkResult(props, scopedVars, span))

\* --------------------------------------------------------------- SqlBackend

\* NewSqlBackend(): the struct holds a logger and nothing else
NewSqlBackend == [log |-> "ngalert.state.historian"]

\* data.NewFrame("states"): a frame with no fields
NewFrame(name) == [Name |-> name, Fields |-> <<>>]

\* QueryStates that returns no frame when the query names no rule
QueryStatesResultNilFrame(h, query) ==
  [isNil |-> query.RuleUID = "", frame |-> NewFrame("states"), err |-> "nil"]

\* What QueryStates returns
QueryStatesResult(h, query) == [isNil |-> FALSE, frame |-> NewFrame("states"), err |-> "nil"]

\* The SqlBackend after RecordStatesAsync: the body is empty
RecordStatesAsyncEffect(h, rule, states) == h

\* The rules, transition lists and history queries the alerting engine passes
AlertRules == {"rule1", "rule2"}
StateTransitions == {<<>>, <<"Normal->Alerting">>, <<"Normal->Alerting", "Alerting->Normal">>}
HistoryQueries == {[RuleUID |-> r, From |-> f] : r \in {"", "rule1", "rule2"}, f \in {0, 1}}

RecordStatesAsync(rule, states) ==
  /\ Len(sqlCalls) < MaxSqlCalls
  /\ sqlBackend' = RecordStatesAsyncEffect(sqlBackend, rule, states)
  /\ sqlCalls' = Append(sqlCalls, [op |-> "RecordStatesAsync", rule |-> rule, states |-> states])
  /\ sqlRet' = [op |-> "RecordStatesAsync"]

QueryStates(query) ==
  /\ Len(sqlCalls) < MaxSqlCalls
  /\ sqlBackend' = sqlBackend
  /\ sqlCalls' = Append(sqlCalls, [op |-> "QueryStates", query |-> query])
  /\ sqlRet' = [op |-> "QueryStates", query |-> query,
                ret |-> QueryStatesResult(sqlBackend, query)]

\* ------------------------------------------------- correlation commands

\* errors.New("invalid correlation config type"): the sentinel's identity
ErrInvalidConfigType == "invalid correlation config type"

ConfigTypeQuery == "query"

\* The nil error
NilError == [isNil |-> TRUE, msg |-> "", chain |-> {}]

\* fmt.Errorf with %s verbs only: a new error carrying the formatted message,
\* with nothing to unwrap
Errorf(msg) == [isNil |-> FALSE, msg |-> msg, chain |-> {}]

\* errors.Is(err, target) for a sentinel target: target is err itself or is
\* reached by unwrapping err
ErrorsIs(err, target) == ~err.isNil /\ target \in err.chain

\* func (t CorrelationConfigType) Validate() error
CorrelationConfigTypeValidate(t) ==
  IF t # ConfigTypeQuery
    THEN Errorf(ErrInvalidConfigType \o ": \"" \o t \o "\"")
    ELSE NilError

\* func (c CreateCorrelationCommand) Validate() error
CreateCorrelationCommandValidate(c) ==
  LET err == CorrelationConfigTypeValidate(c.Config.Type)
  IN  IF ~err.isNil THEN err
      ELSE IF c.TargetUID.isNil /\ c.Config.Type = ConfigTypeQuery
        THEN Errorf("correlations of type \"" \o ConfigTypeQuery \o "\" must have a targetUID")
      ELSE NilError

\* ------------------------------------------------- values of idle variables

IdleFn == fnIn = [fn |-> "none"] /\ fnOut = [fn |-> "none"]

IdleSql == sqlBackend = NewSqlBackend /\ sqlCalls = <<>> /\ sqlRet = [op |-> "none"]

IdleLinks ==
  /\ props = [kind |-> "none"]
  /\ factory = [mode |-> "none"]
  /\ scopedVars = <<>>
  /\ lastCall = [kind |-> "none"]
  /\ firstSeen = <<>>

\* ------------------------------------------------ the state history backend

InitSql == IdleSql /\ IdleFn /\ IdleLinks

DoRecordStatesAsync ==
  /\ \E rule \in AlertRules, states \in StateTransitions : RecordStatesAsync(rule, states)
  /\ UNCHANGED <<fnVars, linkVars>>

DoQueryStates ==
  /\ \E query \in HistoryQueries : QueryStates(query)
  /\ UNCHANGED <<fnVars, linkVars>>

NextSql == DoRecordStatesAsync \/ DoQueryStates

SpecSql == InitSql /\ [][NextSql]_vars

\* ---------------------------------------------- inputs of the helper calls

\* Sequences over S of length at most n
SeqsUpTo(S, n) == UNION {[1..k -> S] : k \in 0..n}

MsValues == (0..MaxSmall) \cup {SplunkMinWidthMs - 1 + k : k \in 0..MaxSmall}
StartTimes == {q * UsPerMs + r : q \in 0..MaxSmall, r \in {0, UsPerMs - 1}}
Durations == {q * UsPerMs + r : q \in MsValues, r \in {0, 1, UsPerMs - 1}}
StartShifts == (-MaxSmall)..MaxSmall
EndShifts == ((-MaxSmall)..MaxSmall) \cup {-SplunkMinWidthMs, SplunkMinWidthMs}

TagAlphabet ==
  {[key |-> "a", value |-> "1"], [key |-> "b", value |-> "2"], [key |-> "cluster", value |-> "c1"]}
SpanTagLists == SeqsUpTo(TagAlphabet, MaxSpanTags)
ProcessTagLists ==
  {<<>>, <<[key |-> "hostname", value |-> "h1"]>>, <<[key |-> "a", value |-> "9"]>>}
MappingAlphabet ==
  {[key |-> "a", value |-> ""], [key |-> "b", value |-> ""], [key |-> "b", value |-> "svc"]}
TagMappings == SeqsUpTo(MappingAlphabet, MaxMapping)

\* A reference to another span
Reference(refType, traceID, spanID, hasSpan, operationName) ==
  [refType |-> refType, traceID |-> traceID, spanID |-> spanID,
   hasSpan |-> hasSpan, span |-> [operationName |-> operationName]]

\* A span of the trace "t1"
TraceSpan(spanID, operationName, startTime, duration, tags, processTags, hasReferences, references, hasSubsidiarilyReferencedBy, subsidiarilyReferencedBy, dataFrameRowIndex) ==
  [traceID |-> "t1", spanID |-> spanID, operationName |-> operationName,
   startTime |-> startTime, duration |-> duration, tags |-> tags,
   process |-> [tags |-> processTags],
   hasReferences |-> hasReferences, references |-> references,
   hasSubsidiarilyReferencedBy |-> hasSubsidiarilyReferencedBy,
   subsidiarilyReferencedBy |-> subsidiarilyReferencedBy,
   dataFrameRowIndex |-> dataFrameRowIndex]

\* A span as the helpers read it; the fields a helper ignores are fixed
HelperSpan(traceID, spanID, operationName, startTime, duration, tags, processTags) ==
  [TraceSpan(spanID, operationName, startTime, duration, tags, processTags,
             FALSE, <<>>, FALSE, <<>>, 0) EXCEPT !.traceID = traceID]

\* Trace-to-logs options as the builders read them
BuilderOptions(hasTags, tags, filterByTraceID, filterBySpanID) ==
  [hasTags |-> hasTags, tags |-> tags,
   filterByTraceID |-> filterByTraceID, filterBySpanID |-> filterBySpanID]

RangeInputs ==
  {[fn |-> "getTimeRangeFromSpan",
    span |-> HelperSpan("t1", "s1", "op1", st, d, <<>>, <<>>),
    timeShift |-> [startMs |-> ss, endMs |-> es],
    isSplunkDS |-> sp] :
      st \in StartTimes, d \in Durations, ss \in StartShifts, es \in EndShifts, sp \in BOOLEAN}

BuilderInputs ==
  {[fn |-> "builder",
    span |-> HelperSpan(t, s, "op1", 0, 0, tags, ptags),
    options |-> BuilderOptions(m[1], m[2], ft, fs)] :
      t \in {"", "t1"}, s \in {"", "s1"}, tags \in SpanTagLists, ptags \in ProcessTagLists,
      m \in {<<FALSE, <<>>>>} \cup {<<TRUE, tm>> : tm \in TagMappings},
      ft \in BOOLEAN, fs \in BOOLEAN}

QueryTemplates ==
  {<<>>, <<"">>, <<"up">>, <<"rate(m{", TagsMarker, "}[1m])">>,
   <<TagsMarker, " or ", TagsMarker>>}

MetricsInputs ==
  {[fn |-> "buildMetricsQuery",
    span |-> HelperSpan("t1", "s1", op, 0, 0, tags, ptags),
    query |-> [name |-> "q", query |-> q],
    hasTags |-> m[1], tags |-> m[2]] :
      op \in {"op1", "op2"}, tags \in SpanTagLists, ptags \in ProcessTagLists,
      m \in {<<FALSE, <<>>>>} \cup {<<TRUE, tm>> : tm \in TagMappings},
      q \in QueryTemplates}

\* --------------------------------------------------- getTimeRangeFromSpan

InitRange == fnIn \in RangeInputs /\ fnOut = [fn |-> "none"] /\ IdleSql /\ IdleLinks

CallGetTimeRangeFromSpan ==
  /\ fnIn.fn = "getTimeRangeFromSpan" /\ fnOut.fn = "none"
  /\ fnOut' = [fn |-> "getTimeRangeFromSpan",
               range |-> getTimeRangeFromSpan(fnIn.span, fnIn.timeShift, fnIn.isSplunkDS)]
  /\ UNCHANGED <<fnIn, sqlVars, linkVars>>

NextRange == CallGetTimeRangeFromSpan

SpecRange == InitRange /\ [][NextRange]_vars

\* ------------------------------------------------------- the query builders

InitBuilders ==
  /\ fnIn \in BuilderInputs \cup MetricsInputs
  /\ fnOut = [fn |-> "none"]
  /\ IdleSql /\ IdleLinks

CallGetQueryForLoki ==
  /\ fnIn.fn = "builder" /\ fnOut.fn = "none"
  /\ fnOut' = [fn |-> "getQueryForLoki", ret |-> getQueryForLoki(fnIn.span, fnIn.options)]
  /\ UNCHANGED <<fnIn, sqlVars, linkVars>>

CallGetQueryForSplunk ==
  /\ fnIn.fn = "builder" /\ fnOut.fn = "none"
  /\ fnOut' = [fn |-> "getQueryForSplunk", ret |-> getQueryForSplunk(fnIn.span, fnIn.options)]
  /\ UNCHANGED <<fnIn, sqlVars, linkVars>>

CallGetQueryForElasticsearchOrOpensearch ==
  /\ fnIn.fn = "builder" /\ fnOut.fn = "none"
  /\ fnOut' = [fn |-> "getQueryForElasticsearchOrOpensearch",
               ret |-> getQueryForElasticsearchOrOpensearch(fnIn.span, fnIn.options)]
  /\ UNCHANGED <<fnIn, sqlVars, linkVars>>

CallBuildMetricsQuery ==
  /\ fnIn.fn = "buildMetricsQuery" /\ fnOut.fn = "none"
  /\ fnOut' = [fn |-> "buildMetricsQuery",
               ret |-> buildMetricsQuery(fnIn.query, fnIn.tags, fnIn.span)]
  /\ UNCHANGED <<fnIn, sqlVars, linkVars>>

\* getTags as the Loki and Splunk builders call it ("=") and as the
\* Elasticsearch builder does (":")
CallGetTags ==
  /\ fnIn.fn = "builder" /\ fnOut.fn = "none"
  /\ \E labelValueSign \in {"=", ":"} :
       fnOut' = [fn |-> "getTags", labelValueSign |-> labelValueSign,
                 tags |-> LokiTagMapping(fnIn.options),
                 ret |-> getTags(fnIn.span, LokiTagMapping(fnIn.options), labelValueSign)]
  /\ UNCHANGED <<fnIn, sqlVars, linkVars>>

NextBuilders ==
  \/ CallGetTags
  \/ CallGetQueryForLoki
  \/ CallGetQueryForSplunk
  \/ CallGetQueryForElasticsearchOrOpensearch
  \/ CallBuildMetricsQuery

SpecBuilders == InitBuilders /\ [][NextBuilders]_vars

\* ------------------------------------------ inputs of createSpanLinkFactory

Tag(key, value) == [key |-> key, value |-> value]

SpanA ==
  TraceSpan("s1", "op1", 1000, 2500, <<Tag("a", "1"), Tag("b", "2")>>,
            <<Tag("hostname", "h1")>>,
            TRUE, <<Reference("CHILD_OF", "t1", "s0", TRUE, "op0"),
                    Reference("FOLLOWS_FROM", "t2", "s9", FALSE, "")>>,
            TRUE, <<Reference("FOLLOWS_FROM", "t1", "s3", TRUE, "op3")>>, 0)
SpanB == TraceSpan("s2", "op2", 5000, 0, <<>>, <<>>, FALSE, <<>>, FALSE, <<>>, 1)
SpanC ==
  TraceSpan("s3", "op3", 7999, 1, <<Tag("a", "7"), Tag("cluster", "c1")>>, <<>>,
            TRUE, <<Reference("FOLLOWS_FROM", "t1", "s1", TRUE, "op1")>>, FALSE, <<>>, 2)

TraceOf(spans) ==
  [traceID |-> "t1", traceName |-> "checkout", duration |-> 9000, spans |-> spans]

LogTypes ==
  {"loki", "grafana-splunk-datasource", "elasticsearch", "grafana-opensearch-datasource",
   "cloudwatch"}

Registry(logsType) ==
  {[uid |-> "logs", name |-> "Logs", type |-> logsType],
   [uid |-> "prom", name |-> "Prometheus", type |-> "prometheus"]}

LogsOptions(uid, tagsChoice, filters, customQuery, shifts) ==
  [datasourceUid |-> uid, hasTags |-> tagsChoice[1], tags |-> tagsChoice[2],
   filterByTraceID |-> filters[1], filterBySpanID |-> filters[2],
   customQuery |-> customQuery, query |-> "{$__tags} |= \"error\"",
   spanStartTimeShift |-> shifts[1], spanEndTimeShift |-> shifts[2]]

TagsChoices ==
  {<<FALSE, <<>>>>, <<TRUE, <<>>>>, <<TRUE, <<Tag("a", ""), Tag("b", "svc")>>>>}

\* [has options, options]
LogsChoices ==
  {<<FALSE, LogsOptions("", <<FALSE, <<>>>>, <<FALSE, FALSE>>, FALSE, <<"", "">>)>>}
    \cup {<<TRUE, LogsOptions(uid, <<FALSE, <<>>>>, <<TRUE, TRUE>>, TRUE, <<"", "">>)>> :
            uid \in {"", "gone"}}
    \cup {<<TRUE, LogsOptions("logs", tc, fl, cq, sh)>> :
            tc \in TagsChoices, fl \in {<<FALSE, FALSE>>, <<TRUE, TRUE>>},
            cq \in BOOLEAN, sh \in {<<"", "">>, <<"-1s", "1s">>}}

MetricsOptions(uid, hasQueries, queries) ==
  [datasourceUid |-> uid, hasQueries |-> hasQueries, queries |-> queries,
   hasTags |-> TRUE, tags |-> <<Tag("a", "")>>,
   spanStartTimeShift |-> "-2ms", spanEndTimeShift |-> "2ms"]

LatencyQuery == [name |-> "latency", query |-> <<>>]
RateQuery == [name |-> "rate", query |-> <<"rate(m{", TagsMarker, "}[1m])">>]

\* [has options, options]
MetricsChoices ==
  {<<FALSE, MetricsOptions("", FALSE, <<>>)>>,
   <<TRUE, MetricsOptions("gone", TRUE, <<LatencyQuery>>)>>,
   <<TRUE, MetricsOptions("prom", FALSE, <<>>)>>,
   <<TRUE, MetricsOptions("prom", TRUE, <<LatencyQuery>>)>>,
   <<TRUE, MetricsOptions("prom", TRUE, <<RateQuery, LatencyQuery>>)>>}

Field(name, hasLinks, links) == [name |-> name, hasLinks |-> hasLinks, links |-> links]
LinkDef(title, kind) == [title |-> title, kind |-> kind]

NoFrame == [fields |-> <<>>]

\* Frames that have a field with link definitions next to other fields
LinkedFrames ==
  {[fields |-> <<Field("traceID", FALSE, <<>>),
                 Field("spanID", TRUE, <<LinkDef("L1", "ok"), LinkDef("L2", "ok")>>)>>],
   [fields |-> <<Field("traceID", TRUE, <<LinkDef("L1", "throws")>>),
                 Field("spanID", FALSE, <<>>)>>],
   [fields |-> <<Field("traceID", TRUE, <<LinkDef("L1", "hidden")>>),
                 Field("spanID", TRUE, <<LinkDef("L2", "ok")>>)>>],
   [fields |-> <<Field("traceID", TRUE, <<>>),
                 Field("spanID", TRUE, <<LinkDef("L3", "hidden"), LinkDef("L4", "ok")>>),
                 Field("tags", TRUE, <<LinkDef("L5", "ok")>>)>>]}

\* Frames without one
UnlinkedFrames ==
  {[fields |-> <<>>],
   [fields |-> <<Field("trace", TRUE, <<LinkDef("L1", "ok")>>)>>],
   [fields |-> <<Field("traceID", FALSE, <<>>), Field("spanID", FALSE, <<>>)>>],
   [fields |-> <<Field("traceID", TRUE, <<>>), Field("spanID", FALSE, <<>>)>>]}

Props(logs, logsType, metrics, hasDataFrame, dataFrame, focus, trace) ==
  [kind |-> "props",
   hasLogsOptions |-> logs[1], traceToLogsOptions |-> logs[2],
   hasMetricsOptions |-> metrics[1], traceToMetricsOptions |-> metrics[2],
   hasDataFrame |-> hasDataFrame, dataFrame |-> dataFrame,
   hasCreateFocusSpanLink |-> focus,
   trace |-> trace,
   registry |-> Registry(logsType)]

\* The logs options tried together with a data frame
FramedLogsChoices ==
  {<<FALSE, LogsOptions("", <<FALSE, <<>>>>, <<FALSE, FALSE>>, FALSE, <<"", "">>)>>,
   <<TRUE, LogsOptions("logs", <<FALSE, <<>>>>, <<TRUE, TRUE>>, TRUE, <<"", "">>)>>}

PropsChoices ==
  {Props(logs, lt, metrics, FALSE, NoFrame, focus, TraceOf({SpanA, SpanB, SpanC})) :
     logs \in LogsChoices, lt \in LogTypes, metrics \in MetricsChoices, focus \in BOOLEAN}
  \cup
  {Props(logs, "loki", <<TRUE, MetricsOptions("prom", TRUE, <<LatencyQuery>>)>>,
         TRUE, frame, TRUE, TraceOf({SpanA, SpanB, SpanC})) :
     logs \in FramedLogsChoices, frame \in LinkedFrames \cup UnlinkedFrames}

NothingSeen(trace) == [id \in {sp.spanID : sp \in trace.spans} |-> [kind |-> "none"]]

InitLinks(choices) ==
  /\ props \in choices
  /\ factory = [mode |-> "none"]
  /\ scopedVars = EmptyVars
  /\ lastCall = [kind |-> "none"]
  /\ firstSeen = NothingSeen(props.trace)
  /\ IdleFn /\ IdleSql

DoLegacySpanLink == \E span \in props.trace.spans : LegacySpanLink(span)

DoStructuredSpanLink == \E span \in props.trace.spans : StructuredSpanLink(span)

\* ------------------------------------------- validation of correlations

\* TargetUID *string: nil, or a pointer to a string
TargetUIDs ==
  {[isNil |-> TRUE, value |-> ""], [isNil |-> FALSE, value |-> ""],
   [isNil |-> FALSE, value |-> "PE1C5CBDA0504A6A3"]}

ConfigTypes == {ConfigTypeQuery, "", "Query", "external"}

CreateCorrelationCommands ==
  {[SourceUID |-> source, OrgId |-> org, SkipReadOnlyCheck |-> skip,
    TargetUID |-> target, Label |-> label, Description |-> "",
    Config |-> [Field |-> "message", Type |-> type]] :
     source \in {"src1", "src2"}, org \in {1, 2}, skip \in BOOLEAN,
     target \in TargetUIDs, label \in {"", "My label"}, type \in ConfigTypes}

InitCorrelations ==
  /\ fnIn \in {[fn |-> "Validate", cmd |-> c] : c \in CreateCorrelationCommands}
  /\ fnOut = [fn |-> "none"]
  /\ IdleSql /\ IdleLinks

CallCorrelationConfigTypeValidate ==
  /\ fnIn.fn = "Validate"
  /\ fnOut' = [fn |-> "CorrelationConfigType.Validate",
               err |-> CorrelationConfigTypeValidate(fnIn.cmd.Config.Type)]
  /\ UNCHANGED <<fnIn, sqlVars, linkVars>>

CallCreateCorrelationCommandValidate ==
  /\ fnIn.fn = "Validate"
  /\ fnOut' = [fn |-> "CreateCorrelationCommand.Validate",
               err |-> CreateCorrelationCommandValidate(fnIn.cmd)]
  /\ UNCHANGED <<fnIn, sqlVars, linkVars>>

NextCorrelations ==
  CallCorrelationConfigTypeValidate \/ CallCreateCorrelationCommandValidate

SpecCorrelations == InitCorrelations /\ [][NextCorrelations]_vars

\* ------------------------------------------------ the span link function

Init == InitLinks(PropsChoices)

Next == CreateSpanLinkFactory \/ DoLegacySpanLink \/ DoStructuredSpanLink

Spec == Init /\ [][Next]_vars

\* ------------------------------- the trace links, over all reference lists

ReferenceAlphabet ==
  {Reference("CHILD_OF", "t1", "s0", TRUE, "op0"),
   Reference("FOLLOWS_FROM", "t2", "s8", TRUE, "op8"),
   Reference("EXTERNAL", "t3", "s9", FALSE, "")}

SubsidiaryAlphabet ==
  {Reference("FOLLOWS_FROM", "t1", "s5", TRUE, "op5"),
   Reference("CHILD_OF", "t1", "s6", FALSE, "")}

ReferencingSpans ==
  {TraceSpan("s1", "op1", 1000, 2500, <<Tag("a", "1")>>, <<>>, r[1], r[2], b[1], b[2], 0) :
     r \in {<<FALSE, <<>>>>} \cup {<<TRUE, refs>> : refs \in SeqsUpTo(ReferenceAlphabet, MaxRefs)},
     b \in {<<FALSE, <<>>>>}
             \cup {<<TRUE, refs>> : refs \in SeqsUpTo(SubsidiaryAlphabet, MaxSubRefs)}}

TraceLinksPropsChoices ==
  {Props(<<TRUE, LogsOptions("logs", <<FALSE, <<>>>>, <<TRUE, TRUE>>, FALSE, <<"", "">>)>>,
         "loki", <<FALSE, MetricsOptions("", FALSE, <<>>)>>,
         FALSE, NoFrame, focus, TraceOf({span})) :
     focus \in BOOLEAN, span \in ReferencingSpans}

InitTraceLinks == InitLinks(TraceLinksPropsChoices)

NextTraceLinks == CreateSpanLinkFactory \/ DoLegacySpanLink

SpecTraceLinks == InitTraceLinks /\ [][NextTraceLinks]_vars

\* ================================================================= claims

\* The range of the helper call under way, before widening
UnwidenedFrom == (fnIn.span.startTime \div 1000) + fnIn.timeShift.startMs
UnwidenedTo == ((fnIn.span.startTime + fnIn.span.duration) \div 1000) + fnIn.timeShift.endMs
RangeReturned == fnOut.fn = "getTimeRangeFromSpan"

\* C1: for every span, every start/end shift (negative end shifts included)
\* and either value of the minimum-width flag, the range returned by
\* getTimeRangeFromSpan ends strictly later than it starts.
C1_EndAfterStart == RangeReturned => fnOut.range.to > fnOut.range.from

\* C2: with the Splunk flag set and a shifted width under 1000 ms (zero and
\* negative included) the returned end is start+1000; with the flag not set
\* and shifted start = shifted end the returned end is start+1; in every other
\* case the end is returned unchanged.
C2_WideningRule ==
  RangeReturned =>
    /\ fnOut.range.from = UnwidenedFrom
    /\ fnOut.range.to =
         CASE fnIn.isSplunkDS /\ UnwidenedTo - UnwidenedFrom < 1000 -> UnwidenedFrom + 1000
           [] ~fnIn.isSplunkDS /\ UnwidenedFrom = UnwidenedTo -> UnwidenedFrom + 1
           [] OTHER -> UnwidenedTo

\* C2 witness: a Splunk range of negative shifted width was widened to one second.
C2_Witness ==
  /\ RangeReturned /\ fnIn.isSplunkDS
  /\ UnwidenedTo < UnwidenedFrom
  /\ fnOut.range.to = fnOut.range.from + 1000

\* The log builders' returns
LogBuilders == {"getQueryForLoki", "getQueryForSplunk", "getQueryForElasticsearchOrOpensearch"}
BuilderReturned == fnOut.fn \in LogBuilders
MappingEmpty == ~fnIn.options.hasTags \/ fnIn.options.tags = <<>>
CarriesDefaultKey ==
  \E i \in 1..Len(fnIn.span.process.tags \o fnIn.span.tags) :
    (fnIn.span.process.tags \o fnIn.span.tags)[i].key \in {"cluster", "hostname", "namespace", "pod"}

\* C3: a log builder invoked with an empty tag mapping (an empty list as well
\* as an absent one) resolves against the four default keys, so a span
\* carrying one of them yields a non-empty tag string, for every builder.
C3_DefaultKeysSubstituted ==
  (BuilderReturned /\ MappingEmpty /\ CarriesDefaultKey) => fnOut.ret.tags # ""

ElasticNoTagsBothIds ==
  /\ fnOut.fn = "getQueryForElasticsearchOrOpensearch"
  /\ fnOut.ret.tags = ""
  /\ fnIn.options.filterByTraceID /\ fnIn.options.filterBySpanID
  /\ fnIn.span.traceID # "" /\ fnIn.span.spanID # ""

\* C5 as stated: without resolved tags and with both ID filters on, the
\* Elasticsearch/OpenSearch builder returns the trace-ID clause, then the
\* span-ID clause, then the empty tag clause.
C5_TraceClauseFirst ==
  ElasticNoTagsBothIds => fnOut.ret.query.query = "\"$__span.traceId\" AND \"$__span.id\" AND "

\* C5 amended: without resolved tags and with both ID filters on, the
\* Elasticsearch/OpenSearch builder returns the span-ID clause, then the
\* trace-ID clause, then the empty tag clause.
C5_SpanClauseFirst ==
  ElasticNoTagsBothIds => fnOut.ret.query.query = "\"$__span.id\" AND \"$__span.traceId\" AND "

\* C5 witness: the builder returned without tags and with both ID clauses.
C5_Witness == ElasticNoTagsBothIds /\ Len(fnOut.ret.query.query) > 0

\* C6: without a template (absent or empty query string) buildMetricsQuery
\* returns the latency-quantile query for the span's operation name,
\* whatever the tag mapping and the span's tags.
C6_MetricsFallback ==
  (fnOut.fn = "buildMetricsQuery" /\ Join(fnIn.query.query, "") = "") =>
    fnOut.ret =
      "histogram_quantile(0.5, sum(rate(tempo_spanmetrics_latency_bucket{operation=\""
        \o fnIn.span.operationName \o "\"}[5m])) by (le))"

\* C6 witness: the fallback was returned for an empty template, a non-empty
\* mapping and a span with a mapped tag.
C6_Witness ==
  /\ fnOut.fn = "buildMetricsQuery"
  /\ fnIn.query.query = <<"">>
  /\ fnIn.hasTags /\ Len(fnIn.tags) > 0 /\ Len(fnIn.span.tags) > 0
  /\ fnIn.span.operationName = "op2"

\* C8: after any sequence of RecordStatesAsync and QueryStates calls the
\* SqlBackend is unchanged, and QueryStates returns a non-nil frame with zero
\* rows and a nil error, whatever the filter and whatever was recorded before.
C8_StubBackend ==
  /\ sqlBackend = [log |-> "ngalert.state.historian"]
  /\ sqlRet.op = "QueryStates" =>
       /\ ~sqlRet.ret.isNil
       /\ \A i \in 1..Len(sqlRet.ret.frame.Fields) : Len(sqlRet.ret.frame.Fields[i]) = 0
       /\ sqlRet.ret.err = "nil"

\* C8 witness: a query returned after transitions had been recorded.
C8_Witness ==
  /\ sqlRet.op = "QueryStates"
  /\ \E i \in 1..Len(sqlCalls) :
       sqlCalls[i].op = "RecordStatesAsync" /\ Len(sqlCalls[i].states) > 0

\* A SpanLink invocation has returned
Invoked == lastCall.kind = "call"

\* The references of the last invoked span that are not CHILD_OF, then its
\* subsidiary back-references
LinkedReferences ==
  (IF lastCall.span.hasReferences
     THEN SelectSeq(lastCall.span.references, LAMBDA r : r.refType # "CHILD_OF")
     ELSE <<>>)
    \o (IF lastCall.span.hasSubsidiarilyReferencedBy
          THEN lastCall.span.subsidiarilyReferencedBy
          ELSE <<>>)

\* C7: in legacy mode with a focus-span link creator, the trace links of a
\* span are one link per reference of span.references that is not CHILD_OF,
\* in list order, followed by one link per entry of
\* span.subsidiarilyReferencedBy, in list order, and nothing else.
C7_TraceLinks ==
  (Invoked /\ lastCall.links.by = "legacy" /\ props.hasCreateFocusSpanLink) =>
    /\ Len(lastCall.links.traceLinks) = Len(LinkedReferences)
    /\ \A i \in 1..Len(LinkedReferences) :
         /\ lastCall.links.traceLinks[i].href.traceID = LinkedReferences[i].traceID
         /\ lastCall.links.traceLinks[i].href.spanID = LinkedReferences[i].spanID

\* C7 witness: trace links were returned for a span whose references mix
\* CHILD_OF with other types and which has a subsidiary back-reference.
C7_Witness ==
  /\ Invoked /\ lastCall.links.by = "legacy" /\ props.hasCreateFocusSpanLink
  /\ \E i, j \in 1..Len(lastCall.span.references) :
       /\ i < j
       /\ lastCall.span.references[i].refType = "CHILD_OF"
       /\ lastCall.span.references[j].refType # "CHILD_OF"
  /\ Len(lastCall.span.subsidiarilyReferencedBy) > 0
  /\ Len(lastCall.links.traceLinks) >= 2

\* C9: for one span-link function, the links returned for a span are the
\* same on every invocation, whatever spans were processed before or in
\* between: every invocation returns what the span's first invocation did.
C9_SameLinksEveryTime ==
  Invoked =>
    /\ firstSeen[lastCall.span.spanID].kind = "links"
    /\ firstSeen[lastCall.span.spanID].links = lastCall.links

\* C9 witness: a span without tags got its log link again after a span with
\* tags had been processed in between.
C9_Witness ==
  /\ Invoked /\ lastCall.span.spanID = "s2"
  /\ firstSeen["s2"].kind = "links" /\ firstSeen["s2"].repeated
  /\ firstSeen["s1"].kind = "links" /\ firstSeen["s1"].links.hasLogLinks
  /\ lastCall.links.hasLogLinks

\* The mode the arguments of createSpanLinkFactory call for
ModeCalledFor ==
  IF /\ props.hasDataFrame
     /\ Len(props.dataFrame.fields) > 1
     /\ \E i \in 1..Len(props.dataFrame.fields) :
          props.dataFrame.fields[i].hasLinks /\ Len(props.dataFrame.fields[i].links) > 0
    THEN "structured"
    ELSE "legacy"

\* C10: structured mode is selected exactly when a data frame is supplied,
\* has more than one field and has a field with a non-empty list of link
\* definitions, legacy mode otherwise; the mode is fixed when the factory is
\* created and every span is processed in it.
C10_ModeSelection ==
  /\ factory.mode # "none" => factory.mode = ModeCalledFor
  /\ Invoked => lastCall.links.by = ModeCalledFor

\* C10 witness: two spans were processed in structured mode.
C10_Witness ==
  /\ Invoked /\ factory.mode = "structured"
  /\ firstSeen["s1"].kind = "links" /\ firstSeen["s3"].kind = "links"

\* The first field of the data frame that carries link definitions
LinkedField ==
  LET fields == props.dataFrame.fields
      carries(i) == fields[i].hasLinks /\ Len(fields[i].links) > 0
      first == CHOOSE i \in 1..Len(fields) :
                 carries(i) /\ \A j \in 1..(i - 1) : ~carries(j)
  IN  fields[first]

\* Its link definitions that resolve to a link
ResolvedDefs == SelectSeq(LinkedField.links, LAMBDA d : d.kind = "ok")

\* Whether resolving its link definitions throws
ResolutionThrows ==
  \E i \in 1..Len(LinkedField.links) : LinkedField.links[i].kind = "throws"

\* C11: in structured mode SpanLink raises nothing; when the resolution of
\* the field links throws or yields no link it returns undefined, and
\* otherwise it returns exactly one log link, made from the first link
\* resolved for the first field that carries link definitions, and no metric
\* links and no trace links.
C11_StructuredLinks ==
  (Invoked /\ lastCall.links.by = "structured") =>
    /\ ~lastCall.links.raised
    /\ IF ResolutionThrows \/ ResolvedDefs = <<>>
         THEN /\ ~lastCall.links.defined
              /\ ~lastCall.links.hasLogLinks
         ELSE /\ lastCall.links.defined
              /\ lastCall.links.hasLogLinks
              /\ Len(lastCall.links.logLinks) = 1
              /\ lastCall.links.logLinks[1].href.title = ResolvedDefs[1].title
              /\ lastCall.links.logLinks[1].href.rowIndex = lastCall.span.dataFrameRowIndex
              /\ ~lastCall.links.hasMetricLinks /\ lastCall.links.metricLinks = <<>>
              /\ ~lastCall.links.hasTraceLinks /\ lastCall.links.traceLinks = <<>>

\* C11 witness: one log link was returned from the second definition of the
\* second field, the first field having an empty list of definitions and the
\* first definition resolving to nothing.
C11_Witness ==
  /\ Invoked /\ lastCall.links.by = "structured"
  /\ ~FieldHasLinks(props.dataFrame.fields[1])
  /\ LinkedField.links[1].kind = "hidden"
  /\ Len(lastCall.links.logLinks) = 1
  /\ lastCall.links.logLinks[1].href.title = "L4"

\* The contexts of the last invocation: the one the function retains and the
\* one handed over with the log link
ContextsOfLastCall ==
  {scopedVars} \cup {lastCall.links.logLinks[i].href.scopedVars :
                       i \in 1..Len(lastCall.links.logLinks)}

\* ctx holds a span scope made of the span and of nothing else
HoldsSpanScopeOf(ctx, span) ==
  /\ "__span" \in DOMAIN ctx
  /\ ctx["__span"].value.id.value = span.spanID
  /\ ctx["__span"].value.duration.value = span.duration
  /\ ctx["__span"].value.name.value = span.operationName
  /\ LET tags == ctx["__span"].value.tags.value
     IN  /\ DOMAIN tags = {span.tags[i].key : i \in 1..Len(span.tags)}
         /\ \A k \in DOMAIN tags :
              \E i \in 1..Len(span.tags) :
                span.tags[i].key = k /\ span.tags[i].value = tags[k].value

\* ctx holds the trace scope of the trace the factory was created for
HoldsTraceScopeOf(ctx, trace) ==
  /\ "__trace" \in DOMAIN ctx
  /\ ctx["__trace"].value.id.value = trace.traceID
  /\ ctx["__trace"].value.name.value = trace.traceName
  /\ ctx["__trace"].value.duration.value = trace.duration

C13_NoSharedWrites ==
  [][factory.mode # "none" => scopedVars' = scopedVars]_vars

\* The logs data source the options name is in the registry
LogsSourceResolves ==
  \E ds \in props.registry : ds.uid = props.traceToLogsOptions.datasourceUid

\* The type of that data source
LogsSourceType ==
  (CHOOSE ds \in props.registry : ds.uid = props.traceToLogsOptions.datasourceUid).type

\* The keys looked for in the tags of a span: those of the configured mapping,
\* or, for Loki and Splunk without a mapping, the default keys
KeysInForce ==
  IF props.traceToLogsOptions.hasTags
    THEN {props.traceToLogsOptions.tags[i].key :
            i \in 1..Len(props.traceToLogsOptions.tags)}
  ELSE IF LogsSourceType \in {"loki", "grafana-splunk-datasource"}
    THEN {"cluster", "hostname", "namespace", "pod"}
  ELSE {}

\* The tag string resolved for the span is not empty: the data source has a
\* query dialect and a process or span tag carries one of the keys in force
SomeTagResolves(span) ==
  /\ LogsSourceType \in
       {"loki", "grafana-splunk-datasource", "elasticsearch", "grafana-opensearch-datasource"}
  /\ \/ \E i \in 1..Len(span.tags) : span.tags[i].key \in KeysInForce
     \/ \E i \in 1..Len(span.process.tags) : span.process.tags[i].key \in KeysInForce

\* C14: in legacy mode a log link is made exactly when the logs data source
\* resolves in the registry, the trace-to-logs options are present, and the
\* resolved tag string is non-empty or the custom query is on; without
\* resolved tags and without the custom query there is none, whatever the ID
\* filters; and when there is one there is exactly one.
C14_LogLinkExactlyWhen ==
  (Invoked /\ lastCall.links.by = "legacy") =>
    /\ lastCall.links.hasLogLinks =
         (/\ props.hasLogsOptions
          /\ LogsSourceResolves
          /\ (SomeTagResolves(lastCall.span) \/ props.traceToLogsOptions.customQuery))
    /\ Len(lastCall.links.logLinks) = IF lastCall.links.hasLogLinks THEN 1 ELSE 0

\* C14 witness: no log link for a span without resolved tags although the
\* data source resolved and both ID filters were on.
C14_Witness ==
  /\ Invoked /\ lastCall.links.by = "legacy"
  /\ props.hasLogsOptions /\ LogsSourceResolves
  /\ LogsSourceType = "elasticsearch"
  /\ props.traceToLogsOptions.filterByTraceID /\ props.traceToLogsOptions.filterBySpanID
  /\ ~props.traceToLogsOptions.customQuery
  /\ ~SomeTagResolves(lastCall.span)
  /\ ~lastCall.links.hasLogLinks

\* C15: when the type of the logs data source is none of loki,
\* grafana-splunk-datasource, elasticsearch and grafana-opensearch-datasource,
\* the legacy function makes no log link for any span and any option values,
\* the custom query included, and raises no error.
C15_NoLinkForOtherTypes ==
  (/\ Invoked /\ lastCall.links.by = "legacy"
   /\ props.hasLogsOptions /\ LogsSourceResolves
   /\ LogsSourceType \notin
        {"loki", "grafana-splunk-datasource", "elasticsearch", "grafana-opensearch-datasource"})
    => /\ ~lastCall.links.hasLogLinks
       /\ lastCall.links.logLinks = <<>>
       /\ ~lastCall.links.raised

\* C16: CreateCorrelationCommand.Validate returns an error that wraps
\* ErrInvalidConfigType when the config type is not "query", this being
\* checked first; it returns an error when the type is "query" and the
\* target UID is missing; it returns nil exactly when the type is "query" and
\* the target UID is present; and every error it returns is one a caller can
\* match on.
C16_ValidateTypedErrors ==
  fnOut.fn = "CreateCorrelationCommand.Validate" =>
    LET c == fnIn.cmd
        err == fnOut.err
    IN  /\ c.Config.Type # "query" => ErrorsIs(err, ErrInvalidConfigType)
        /\ (c.Config.Type = "query" /\ c.TargetUID.isNil) => ~err.isNil
        /\ err.isNil = (c.Config.Type = "query" /\ ~c.TargetUID.isNil)
        /\ ~err.isNil => err.chain # {}

\* The tags of the span getTags was called for, process tags first
ProcessThenSpanTags == fnIn.span.process.tags \o fnIn.span.tags

\* The first entry of the mapping getTags was called with that has the key
FirstEntryFor(key) ==
  LET tags == fnOut.tags
      first == CHOOSE j \in 1..Len(tags) :
                 tags[j].key = key /\ \A k \in 1..(j - 1) : tags[k].key # key
  IN  tags[first]

\* The tags whose key the mapping has, in the order of the span's list
MappedTags ==
  SelectSeq(ProcessThenSpanTags,
            LAMBDA t : \E j \in 1..Len(fnOut.tags) : fnOut.tags[j].key = t.key)

\* C17: getTags returns one fragment label<sign>"value" for every process or
\* span tag whose key the mapping has, process tags first and in list order;
\* the label is the target name of the mapping entry when it is not empty and
\* the tag key otherwise; tags with other keys are dropped, a key that occurs
\* twice gives two fragments, and no matching tag gives the empty sequence.
C17_GetTagsFragments ==
  fnOut.fn = "getTags" =>
    /\ Len(fnOut.ret) = Len(MappedTags)
    /\ \A i \in 1..Len(MappedTags) :
         LET entry == FirstEntryFor(MappedTags[i].key)
             label == IF entry.value # "" THEN entry.value ELSE entry.key
         IN  fnOut.ret[i] =
               label \o fnOut.labelValueSign \o "\"" \o MappedTags[i].value \o "\""

\* C17 witness: key a occurs in the process tags and in the span tags and b
\* is renamed to svc; three fragments were returned, the process tag's first.
C17_Witness ==
  /\ fnOut.fn = "getTags" /\ fnOut.labelValueSign = "="
  /\ fnIn.span.process.tags = <<[key |-> "a", value |-> "9"]>>
  /\ Len(fnIn.span.tags) = 2
  /\ fnIn.span.tags[1].key = "a" /\ fnIn.span.tags[2].key = "b"
  /\ fnOut.ret = <<"a=\"9\"", "a=\"1\"", "svc=\"2\"">>

\* The clause a mapping entry and a tag value make
ClauseOf(entry, sign, value) ==
  (IF entry.value # "" THEN entry.value ELSE entry.key) \o sign \o "\"" \o value \o "\""

\* The number of process and span tags with the key
Occurrences(key) ==
  Cardinality({i \in 1..Len(ProcessThenSpanTags) : ProcessThenSpanTags[i].key = key})

\* The value of the first process or span tag with the key
FirstValueOf(key) ==
  LET all == ProcessThenSpanTags
      first == CHOOSE i \in 1..Len(all) :
                 all[i].key = key /\ \A j \in 1..(i - 1) : all[j].key # key
  IN  all[first].value

\* The metric builder's clauses follow the order of the mapping entries: the
\* marker of the template m{$__tags} is replaced by one clause per mapping
\* entry with a tag of its key, in the order of the entries
MetricClausesInMappingOrder ==
  (/\ fnOut.fn = "buildMetricsQuery"
   /\ fnIn.query.query = <<"rate(m{", "$__tags", "}[1m])">>
   /\ Len(fnIn.tags) > 0) =>
    LET matching == SelectSeq(fnIn.tags, LAMBDA e : Occurrences(e.key) > 0)
        clauses == [i \in 1..Len(matching) |->
                      ClauseOf(matching[i], "=", FirstValueOf(matching[i].key))]
    IN  fnOut.ret = "rate(m{" \o Join(clauses, ", ") \o "}[1m])"

\* C18 as stated: the clauses follow the insertion order of the mapping
\* entries, for getTags (the log builders) as for the metric builder: when
\* the entry of key k1 precedes the entry of key k2, the clause of k1
\* precedes the clause of k2.
C18_MappingOrderEverywhere ==
  /\ MetricClausesInMappingOrder
  /\ fnOut.fn = "getTags" =>
       \A i, j \in 1..Len(fnOut.tags) :
         (/\ i < j
          /\ fnOut.tags[i].key # fnOut.tags[j].key
          /\ FirstEntryFor(fnOut.tags[i].key) = fnOut.tags[i]
          /\ FirstEntryFor(fnOut.tags[j].key) = fnOut.tags[j]
          /\ Occurrences(fnOut.tags[i].key) = 1
          /\ Occurrences(fnOut.tags[j].key) = 1) =>
           \A p, q \in 1..Len(fnOut.ret) :
             (/\ fnOut.ret[p] = ClauseOf(fnOut.tags[i], fnOut.labelValueSign,
                                         FirstValueOf(fnOut.tags[i].key))
              /\ fnOut.ret[q] = ClauseOf(fnOut.tags[j], fnOut.labelValueSign,
                                         FirstValueOf(fnOut.tags[j].key))) => p < q

\* C18, amended: the clauses of the metric builder follow the insertion
\* order of the mapping entries; the clauses of getTags (the log builders)
\* follow the order of the span's tags, process tags first, whatever the
\* order of the mapping entries.
C18_OrderPerBuilder ==
  /\ MetricClausesInMappingOrder
  /\ fnOut.fn = "getTags" =>
       /\ Len(fnOut.ret) = Len(MappedTags)
       /\ \A p, q \in 1..Len(fnOut.ret) :
            p < q =>
              /\ fnOut.ret[p] = ClauseOf(FirstEntryFor(MappedTags[p].key),
                                         fnOut.labelValueSign, MappedTags[p].value)
              /\ fnOut.ret[q] = ClauseOf(FirstEntryFor(MappedTags[q].key),
                                         fnOut.labelValueSign, MappedTags[q].value)

\* C18 witness: the metric builder put the clause of b before the clause of
\* a, as the mapping does, for a span whose tags have a before b.
C18_Witness ==
  /\ fnOut.fn = "buildMetricsQuery"
  /\ Len(fnIn.tags) = 2 /\ fnIn.tags[1].key = "b" /\ fnIn.tags[2].key = "a"
  /\ Len(fnIn.span.tags) = 2
  /\ fnIn.span.tags[1].key = "a" /\ fnIn.span.tags[2].key = "b"
  /\ fnOut.ret = "rate(m{b=\"2\", a=\"1\"}[1m])"

\* The template buildMetricsQuery was called with is not empty
TemplateGiven == fnOut.fn = "buildMetricsQuery" /\ Join(fnIn.query.query, "") # ""

\* The template has the marker
MarkerPresent == \E i \in 1..Len(fnIn.query.query) : fnIn.query.query[i] = "$__tags"

\* The label="value" pairs the mapping resolves for the span, in mapping order
ResolvedPairs ==
  LET matching == SelectSeq(fnIn.tags,
                    LAMBDA e : Occurrences(e.key) > 0 /\ FirstValueOf(e.key) # "")
  IN  [i \in 1..Len(matching) |-> ClauseOf(matching[i], "=", FirstValueOf(matching[i].key))]

\* The template with every marker replaced by text
TemplateWith(text) ==
  Join([i \in 1..Len(fnIn.query.query) |->
          IF fnIn.query.query[i] = "$__tags" THEN text ELSE fnIn.query.query[i]], "")

\* C19 as stated: with a non-empty template, buildMetricsQuery returns the
\* template unchanged when the template lacks the marker or no tag resolves
\* (the mapping is empty, or no tag of the span matches an entry), and
\* otherwise returns it with every marker replaced by the pairs joined
\* with ", ".
C19_UnchangedWithoutResolvedTags ==
  TemplateGiven =>
    fnOut.ret = IF ~MarkerPresent \/ ResolvedPairs = <<>>
                  THEN Join(fnIn.query.query, "")
                  ELSE TemplateWith(Join(ResolvedPairs, ", "))

\* C19, amended: with a non-empty template, buildMetricsQuery returns the
\* template unchanged when the template lacks the marker or the mapping is
\* empty, and otherwise returns it with every marker replaced by the pairs
\* joined with ", ", which is the empty string when no tag matches.
C19_UnchangedWithoutMapping ==
  TemplateGiven =>
    fnOut.ret = IF ~MarkerPresent \/ Len(fnIn.tags) = 0
                  THEN Join(fnIn.query.query, "")
                  ELSE TemplateWith(Join(ResolvedPairs, ", "))

\* C19 witness: both markers of a template were replaced by the empty string
\* for a mapping that matches no tag of the span.
C19_Witness ==
  /\ TemplateGiven
  /\ fnIn.query.query = <<"$__tags", " or ", "$__tags">>
  /\ Len(fnIn.tags) > 0 /\ ResolvedPairs = <<>>
  /\ fnOut.ret = " or "

\* The mapping the builder of the logs data source resolves tags with
MappingInForce ==
  IF props.traceToLogsOptions.hasTags
    THEN props.traceToLogsOptions.tags
  ELSE IF LogsSourceType \in {"loki", "grafana-splunk-datasource"}
    THEN [i \in 1..4 |-> [key |-> <<"cluster", "hostname", "namespace", "pod">>[i],
                          value |-> ""]]
  ELSE <<>>

\* The tag string the builder of the logs data source resolves for the span:
\* the clauses of its mapped tags, with the sign and the separator of the
\* dialect; empty for a data source without a builder
TagStringOf(span) ==
  LET type == LogsSourceType
      mapping == MappingInForce
      entryFor(key) ==
        mapping[CHOOSE j \in 1..Len(mapping) :
                  mapping[j].key = key /\ \A k \in 1..(j - 1) : mapping[k].key # key]
      mapped == SelectSeq(span.process.tags \o span.tags,
                          LAMBDA t : \E j \in 1..Len(mapping) : mapping[j].key = t.key)
      sign == IF type \in {"elasticsearch", "grafana-opensearch-datasource"}
                THEN ":" ELSE "="
      sep == CASE type = "loki" -> ", "
               [] type = "grafana-splunk-datasource" -> " "
               [] OTHER -> " AND "
  IN  IF type \in {"loki", "grafana-splunk-datasource", "elasticsearch",
                   "grafana-opensearch-datasource"}
        THEN Join([i \in 1..Len(mapped) |->
                     ClauseOf(entryFor(mapped[i].key), sign, mapped[i].value)], sep)
        ELSE ""

\* C20: in legacy mode with the custom query on, the query of the log link
\* is options.query and not the query the builder generated, for every
\* dialect and whether or not a tag resolved, and the tag string the builder
\* resolved is what the link's context holds as __tags.
C20_CustomQueryCarried ==
  (/\ Invoked /\ lastCall.links.by = "legacy"
   /\ lastCall.links.hasLogLinks
   /\ props.traceToLogsOptions.customQuery) =>
    LET href == lastCall.links.logLinks[1].href
    IN  /\ href.query = props.traceToLogsOptions.query
        /\ "__tags" \in DOMAIN href.scopedVars
        /\ href.scopedVars["__tags"].value = TagStringOf(lastCall.span)

\* C20 witness: the custom query was carried for a span without resolved
\* tags after a span with resolved tags had been processed.
C20_Witness ==
  /\ Invoked /\ lastCall.links.by = "legacy"
  /\ lastCall.span.spanID = "s2" /\ firstSeen["s1"].kind = "links"
  /\ lastCall.links.hasLogLinks
  /\ LogsSourceType = "grafana-splunk-datasource"
  /\ props.traceToLogsOptions.customQuery
  /\ TagStringOf(lastCall.span) = ""
  /\ lastCall.links.logLinks[1].href.query = "{$__tags} |= \"error\""
  /\ lastCall.links.logLinks[1].href.scopedVars["__tags"].value = ""

\* The end getTimeRangeFromSpan returns for a derived start and a derived end
EndReturnedFor(from, to, isSplunkDS) ==
  IF isSplunkDS /\ to - from < 1000 THEN from + 1000
  ELSE IF from = to THEN to + 1
  ELSE to

\* C21 as stated: the start and the duration are each truncated to
\* milliseconds: the derived start is floor(startTime/1000) + startShift and
\* the derived end, before any widening, is
\* floor(startTime/1000) + floor(duration/1000) + endShift.
C21_EachTruncated ==
  RangeReturned =>
    LET from == (fnIn.span.startTime \div 1000) + fnIn.timeShift.startMs
        to == (fnIn.span.startTime \div 1000) + (fnIn.span.duration \div 1000)
                + fnIn.timeShift.endMs
    IN  /\ fnOut.range.from = from
        /\ fnOut.range.to = EndReturnedFor(from, to, fnIn.isSplunkDS)

\* C21, amended: the derived start is floor(startTime/1000) + startShift,
\* and the derived end, before any widening, is
\* floor((startTime + duration)/1000) + endShift: the sum of start and
\* duration is truncated, not each of them.
C21_SumTruncated ==
  RangeReturned =>
    LET from == (fnIn.span.startTime \div 1000) + fnIn.timeShift.startMs
        to == ((fnIn.span.startTime + fnIn.span.duration) \div 1000)
                + fnIn.timeShift.endMs
    IN  /\ fnOut.range.from = from
        /\ fnOut.range.to = EndReturnedFor(from, to, fnIn.isSplunkDS)

\* C21 witness: a span starting at 999 us and lasting 1001 us, without
\* shifts and without the Splunk flag, got the range from 0 ms to 2 ms.
C21_Witness ==
  /\ RangeReturned /\ ~fnIn.isSplunkDS
  /\ fnIn.span.startTime = 999 /\ fnIn.span.duration = 1001
  /\ fnIn.timeShift = [startMs |-> 0, endMs |-> 0]
  /\ fnOut.range = [from |-> 0, to |-> 2]

\* The metrics data source the options name is in the registry
MetricsSourceResolves ==
  /\ props.hasMetricsOptions
  /\ \E ds \in props.registry : ds.uid = props.traceToMetricsOptions.datasourceUid

\* C22: in legacy mode, when the metrics data source resolves and a list of
\* metric query definitions is configured, the metric links are one link per
\* definition, in the order of the definitions and titled with the
\* definition's name, whether or not a tag resolved or a log link was made;
\* when the data source does not resolve or no list is configured there are
\* no metric links.
C22_MetricLinkPerDefinition ==
  (Invoked /\ lastCall.links.by = "legacy") =>
    IF MetricsSourceResolves /\ props.traceToMetricsOptions.hasQueries
      THEN /\ lastCall.links.hasMetricLinks
           /\ Len(lastCall.links.metricLinks) = Len(props.traceToMetricsOptions.queries)
           /\ \A i \in 1..Len(props.traceToMetricsOptions.queries) :
                /\ lastCall.links.metricLinks[i].title =
                     props.traceToMetricsOptions.queries[i].name
                /\ lastCall.links.metricLinks[i].href.datasourceUid =
                     props.traceToMetricsOptions.datasourceUid
      ELSE /\ ~lastCall.links.hasMetricLinks
           /\ lastCall.links.metricLinks = <<>>

\* C22 witness: a span without tags and without a log link got the two
\* metric links of the two definitions, in their order.
C22_Witness ==
  /\ Invoked /\ lastCall.links.by = "legacy"
  /\ lastCall.span.tags = <<>>
  /\ ~lastCall.links.hasLogLinks
  /\ Len(lastCall.links.metricLinks) = 2
  /\ lastCall.links.metricLinks[1].title = "rate"
  /\ lastCall.links.metricLinks[2].title = "latency"

\* The tag string the Splunk builder resolves for the span it was called
\* with: the clauses of the tags whose key is in the configured mapping (the
\* default keys without one), process tags first, joined with one space
SplunkTagString ==
  LET mapping == IF fnIn.options.hasTags
                   THEN fnIn.options.tags
                   ELSE [i \in 1..4 |->
                           [key |-> <<"cluster", "hostname", "namespace", "pod">>[i],
                            value |-> ""]]
      entryFor(key) ==
        mapping[CHOOSE j \in 1..Len(mapping) :
                  mapping[j].key = key /\ \A k \in 1..(j - 1) : mapping[k].key # key]
      mapped == SelectSeq(ProcessThenSpanTags,
                          LAMBDA t : \E j \in 1..Len(mapping) : mapping[j].key = t.key)
  IN  Join([i \in 1..Len(mapped) |->
              ClauseOf(entryFor(mapped[i].key), "=", mapped[i].value)], " ")

\* C23: the Splunk builder returns the resolved tag string, and a query made
\* of the $__tags placeholder, present only when that string is not empty,
\* then the quoted trace-ID token, then the quoted span-ID token, each of
\* them present only when its filter is on and the span's ID is not empty.
C23_SplunkQuery ==
  fnOut.fn = "getQueryForSplunk" =>
    /\ fnOut.ret.tags = SplunkTagString
    /\ fnOut.ret.query.query =
         (IF SplunkTagString # "" THEN "$__tags" ELSE "")
           \o (IF fnIn.options.filterByTraceID /\ fnIn.span.traceID # ""
                 THEN " \"$__span.traceId\"" ELSE "")
           \o (IF fnIn.options.filterBySpanID /\ fnIn.span.spanID # ""
                 THEN " \"$__span.id\"" ELSE "")

\* C23 witness: two tags were resolved and both ID tokens follow the
\* placeholder, the trace-ID token first.
C23_Witness ==
  /\ fnOut.fn = "getQueryForSplunk"
  /\ fnOut.ret.tags = "a=\"1\" svc=\"2\""
  /\ fnOut.ret.query.query = "$__tags \"$__span.traceId\" \"$__span.id\""

\* C24: after any sequence of invocations of a legacy span-link function,
\* the __tags variable of the context a log link is made with is the tag
\* string resolved for the span being processed, never one an earlier span
\* left in the retained context, and every metric link is made with an empty
\* context.
C24_TagsOfCurrentSpan ==
  (Invoked /\ lastCall.links.by = "legacy") =>
    /\ \A i \in 1..Len(lastCall.links.logLinks) :
         LET ctx == lastCall.links.logLinks[i].href.scopedVars
         IN  /\ "__tags" \in DOMAIN ctx
             /\ ctx["__tags"].value = TagStringOf(lastCall.span)
    /\ \A i \in 1..Len(lastCall.links.metricLinks) :
         DOMAIN lastCall.links.metricLinks[i].href.scopedVars = {}

\* C24 witness: span s3 got a log link with its own tag string after span s1
\* had got one with another tag string, and its metric links as well.
C24_Witness ==
  /\ Invoked /\ lastCall.links.by = "legacy" /\ lastCall.span.spanID = "s3"
  /\ firstSeen["s1"].kind = "links" /\ firstSeen["s1"].links.hasLogLinks
  /\ lastCall.links.hasLogLinks
  /\ lastCall.links.logLinks[1].href.scopedVars["__tags"].value = "a=\"7\""
  /\ firstSeen["s1"].links.logLinks[1].href.scopedVars["__tags"].value
       = "a=\"1\", svc=\"2\""
  /\ Len(lastCall.links.metricLinks) > 0

====
